---- MODULE Spec2Model ----
(***************************************************************************)
(* Model of networks/unet_ae.py: the gradient reversal layer, the U-Net    *)
(* autoencoder with its domain classifier (one training iteration: forward *)
(* pass, loss, backward pass) and the training driver train_net.           *)
(*                                                                         *)
(* Two specifications share the module:                                    *)
(*   Spec      the driver UNetAE.train_net (epochs, testing, checkpoints)  *)
(*   SpecStep  one iteration of UNetAE.train_epoch through UNetAE.forward  *)
(*             and loss.backward()                                         *)
(***************************************************************************)
EXTENDS Integers, Sequences, FiniteSets, TLC

\* ---------------------------------------------------------------- bounds
MaxEpochs == 3          \* train_net is called with epochs in 0..MaxEpochs
MaxTestFreq == 2        \* and test_freq in 1..MaxTestFreq
MaxLoss == 2            \* finite losses are 0..MaxLoss
MaxLevels == 3          \* UNetAE is built with levels in 1..MaxLevels
MaxLambda == 2          \* and lambda_rec in 0..MaxLambda
MaxVal == 1             \* tensor elements and local derivatives are -MaxVal..MaxVal

\* ------------------------------------------------------- float64 losses
\* test_epoch returns a numpy float64: a finite number, +inf or NaN.
Fin(n) == [k |-> "fin", v |-> n]
Inf == [k |-> "inf", v |-> 0]
NaN == [k |-> "nan", v |-> 0]
Losses == {Fin(n) : n \in 0..MaxLoss} \cup {Inf, NaN}

\* a <= b and a < b on float64: false as soon as one side is NaN, +inf is
\* above every finite number and not below itself
LtEq(a, b) ==
    /\ a.k # "nan"
    /\ b.k # "nan"
    /\ \/ b.k = "inf"
       \/ a.k = "fin" /\ b.k = "fin" /\ a.v <= b.v
Lt(a, b) ==
    /\ a.k # "nan"
    /\ b.k # "nan"
    /\ \/ a.k = "fin" /\ b.k = "inf"
       \/ a.k = "fin" /\ b.k = "fin" /\ a.v < b.v

\* ------------------------------------------------------------- train_net
VARIABLES
    log_dir,          \* argument: "None" or a directory name
    epochs,           \* argument
    test_freq,        \* argument
    pc,               \* position in train_net
    epoch,            \* loop variable of train_net
    writer,           \* "unset", "None", "open", "closed"
    scalars,          \* number of writer.add_scalar calls so far
    test_loss,        \* last value returned by test_epoch
    test_loss_min,
    best_saved_at,    \* epoch of the last write of best_checkpoint.pytorch, -1 if none
    ckpt_saved_at,    \* epoch of the last write of checkpoint.pytorch, -1 if none
    trace,            \* history: the operations performed, as <<epoch, operation>>
    tests             \* history: the test losses returned, as [e |-> epoch, loss |-> l]

netVars == <<log_dir, epochs, test_freq, pc, epoch, writer, scalars, test_loss,
             test_loss_min, best_saved_at, ckpt_saved_at, trace, tests>>

\* ------------------------------------------- one training iteration: state
\* A tensor is followed through the network by its name, <<kind, index>>, and
\* by one of its elements (view_as and neg act element by element).
VARIABLES
    levels,           \* UNetAE.levels
    lambda_rec,       \* UNetAE.lambda_rec
    spc,              \* position in the iteration
    li,               \* loop variable of the encoder / decoder loops
    cur,              \* the tensor the local variable `outputs` is bound to
    encoder_outputs,  \* the list encoder_outputs (tensor names)
    graph,            \* <<t, u>>: the module that produced t was given u
    outputs_val,      \* an element of the center output
    reverse_val,      \* the same element of reverse_outputs
    jCls,             \* d loss_dom / d (classifier input), chosen by backward
    jClsParam,        \* d loss_dom / d (a classifier parameter)
    jEnc,             \* d (center output) / d (an encoder parameter)
    g_cls,            \* gradient the classifier passes back to its input
    g_rev,            \* gradient ReverseLayerF.backward passes back
    g_dec,            \* gradient the decoder passes back to its input
    grad_outputs,     \* gradient accumulated on the center output
    enc_grad,         \* .grad of the encoder parameter
    cls_grad          \* .grad of the classifier parameter

stepVars == <<levels, lambda_rec, spc, li, cur, encoder_outputs, graph, outputs_val,
              reverse_val, jCls, jClsParam, jEnc, g_cls, g_rev, g_dec, grad_outputs,
              enc_grad, cls_grad>>

Vals == (0 - MaxVal)..MaxVal

T(kind, n) == <<kind, n>>

\* the network as constructed, before an iteration starts
InitStep ==
    /\ levels \in 1..MaxLevels
    /\ lambda_rec \in 0..MaxLambda
    /\ spc = "encoder"
    /\ li = 0
    /\ cur = T("x", 0)
    /\ encoder_outputs = <<>>
    /\ graph = {}
    /\ outputs_val = 0
    /\ reverse_val = 0
    /\ jCls = 0
    /\ jClsParam = 0
    /\ jEnc = 0
    /\ g_cls = 0
    /\ g_rev = 0
    /\ g_dec = 0
    /\ grad_outputs = 0
    /\ enc_grad = 0
    /\ cls_grad = 0

\* the network when only train_net is followed
IdleStep ==
    /\ levels = 1
    /\ lambda_rec = 0
    /\ spc = "idle"
    /\ li = 0
    /\ cur = T("x", 0)
    /\ encoder_outputs = <<>>
    /\ graph = {}
    /\ outputs_val = 0
    /\ reverse_val = 0
    /\ jCls = 0
    /\ jClsParam = 0
    /\ jEnc = 0
    /\ g_cls = 0
    /\ g_rev = 0
    /\ g_dec = 0
    /\ grad_outputs = 0
    /\ enc_grad = 0
    /\ cls_grad = 0

LogDirs == {"None", "runs"}

\* the state before train_net is entered: the arguments are chosen
InitNet ==
    /\ log_dir \in LogDirs
    /\ epochs \in 0..MaxEpochs
    /\ test_freq \in 1..MaxTestFreq
    /\ pc = "start"
    /\ epoch = 0
    /\ writer = "unset"
    /\ scalars = 0
    /\ test_loss = NaN
    /\ test_loss_min = Inf
    /\ best_saved_at = -1
    /\ ckpt_saved_at = -1
    /\ trace = <<>>
    /\ tests = <<>>

\* the head of `for epoch in range(epochs)`
LoopHead(e) == IF e < epochs THEN "train" ELSE "close"

\* lines 307-316: the summary writer only exists when log_dir is given
WriterFor(dir) == IF dir # "None" THEN "open" ELSE "None"

TrainNetStart ==
    /\ UNCHANGED stepVars
    /\ pc = "start"
    /\ writer' = WriterFor(log_dir)
    /\ test_loss_min' = Inf
    /\ pc' = LoopHead(0)
    /\ UNCHANGED <<log_dir, epochs, test_freq, epoch, scalars, test_loss,
                   best_saved_at, ckpt_saved_at, trace, tests>>

\* number of add_scalar calls of train_epoch / test_epoch: three when a writer
\* is passed, none otherwise (`if writer is not None`)
EpochScalars(w) == IF w # "None" THEN 3 ELSE 0

\* lines 322-323 with train_epoch (160-237)
TrainEpoch ==
    /\ UNCHANGED stepVars
    /\ pc = "train"
    /\ trace' = Append(trace, <<epoch, "train">>)
    /\ scalars' = scalars + EpochScalars(writer)
    /\ pc' = "sched"
    /\ UNCHANGED <<log_dir, epochs, test_freq, epoch, writer, test_loss,
                   test_loss_min, best_saved_at, ckpt_saved_at, tests>>

\* what follows the scheduler block: `if epoch % test_freq == 0`
AfterSched(e) == IF e % test_freq = 0 THEN "test" ELSE "ckpt"

\* lines 326-330: the scheduler always exists, it is stepped and the learning
\* rate is logged through writer without a test for None: with writer = None
\* the attribute lookup raises AttributeError and train_net is left
SchedulerStep ==
    /\ UNCHANGED stepVars
    /\ pc = "sched"
    /\ trace' = Append(trace, <<epoch, "sched">>)
    /\ IF writer = "None"
         THEN /\ pc' = "error"
              /\ UNCHANGED scalars
         ELSE /\ scalars' = scalars + 1
              /\ pc' = AfterSched(epoch)
    /\ UNCHANGED <<log_dir, epochs, test_freq, epoch, writer, test_loss,
                   test_loss_min, best_saved_at, ckpt_saved_at, tests>>

\* lines 334-335 with test_epoch (240-302): the average loss is returned
TestEpoch ==
    /\ UNCHANGED stepVars
    /\ pc = "test"
    /\ \E l \in Losses :
         /\ test_loss' = l
         /\ tests' = Append(tests, [e |-> epoch, loss |-> l])
    /\ trace' = Append(trace, <<epoch, "test">>)
    /\ scalars' = scalars + EpochScalars(writer)
    /\ pc' = "best"
    /\ UNCHANGED <<log_dir, epochs, test_freq, epoch, writer,
                   test_loss_min, best_saved_at, ckpt_saved_at>>

\* the comparison written `<=`
IsNewBest_le(l, m) == LtEq(l, m)

\* line 338: `if test_loss < test_loss_min`
IsNewBest(l, m) == Lt(l, m)

\* lines 338-340, the branch taken
SaveBest ==
    /\ UNCHANGED stepVars
    /\ pc = "best"
    /\ IsNewBest(test_loss, test_loss_min)
    /\ test_loss_min' = test_loss
    /\ IF log_dir = "None"
         THEN /\ pc' = "error"           \* os.path.join(None, ...) raises TypeError
              /\ UNCHANGED <<best_saved_at, trace>>
         ELSE /\ best_saved_at' = epoch
              /\ trace' = Append(trace, <<epoch, "best">>)
              /\ pc' = "ckpt"
    /\ UNCHANGED <<log_dir, epochs, test_freq, epoch, writer, scalars, test_loss,
                   ckpt_saved_at, tests>>

\* lines 338-340, the branch not taken
KeepBest ==
    /\ UNCHANGED stepVars
    /\ pc = "best"
    /\ ~IsNewBest(test_loss, test_loss_min)
    /\ pc' = "ckpt"
    /\ UNCHANGED <<log_dir, epochs, test_freq, epoch, writer, scalars, test_loss,
                   test_loss_min, best_saved_at, ckpt_saved_at, trace, tests>>

\* line 343 and the loop increment
SaveCheckpoint ==
    /\ UNCHANGED stepVars
    /\ pc = "ckpt"
    /\ IF log_dir = "None"
         THEN /\ pc' = "error"           \* os.path.join(None, ...) raises TypeError
              /\ UNCHANGED <<ckpt_saved_at, trace, epoch>>
         ELSE /\ ckpt_saved_at' = epoch
              /\ trace' = Append(trace, <<epoch, "ckpt">>)
              /\ epoch' = epoch + 1
              /\ pc' = LoopHead(epoch + 1)
    /\ UNCHANGED <<log_dir, epochs, test_freq, writer, scalars, test_loss,
                   test_loss_min, best_saved_at, tests>>

\* line 345: writer.close(), also without a test for None
CloseWriter ==
    /\ UNCHANGED stepVars
    /\ pc = "close"
    /\ IF writer = "None"
         THEN /\ pc' = "error"
              /\ UNCHANGED <<writer, trace>>
         ELSE /\ writer' = "closed"
              /\ trace' = Append(trace, <<epoch, "close">>)
              /\ pc' = "done"
    /\ UNCHANGED <<log_dir, epochs, test_freq, epoch, scalars, test_loss,
                   test_loss_min, best_saved_at, ckpt_saved_at, tests>>

NextNet ==
    \/ TrainNetStart
    \/ TrainEpoch
    \/ SchedulerStep
    \/ TestEpoch
    \/ SaveBest
    \/ KeepBest
    \/ SaveCheckpoint
    \/ CloseWriter

\* --------------------------------------------- one training iteration: steps
\* the forward pass returning the negated tensor
ReverseLayerF_forward_neg(x) == 0 - x

\* ReverseLayerF.forward: x.view_as(x), every element of x as it is
ReverseLayerF_forward(x) == x

\* the backward pass without the negation
ReverseLayerF_backward_id(grad_output) == grad_output

\* ReverseLayerF.backward: grad_output.neg()
ReverseLayerF_backward(grad_output) == 0 - grad_output

\* the decoder built with the default skip_connections=True
SkipConnectionsDefault == TRUE

\* UNetAE.__init__ builds its decoder with skip_connections=False
UNetAE_skip_connections == FALSE

\* UNetAE.forward: the classifier is given reverse_outputs, the decoder final_output
ClassifierInput == T("rev", 0)
DecoderInput == T("center", 0)

\* list.reverse()
Reverse(s) == [i \in 1..Len(s) |-> s[Len(s) + 1 - i]]

\* UNetEncoder.forward, one turn of the loop: convblock, append, pool
EncoderLevel ==
    /\ spc = "encoder"
    /\ li < levels
    /\ graph' = graph \cup {<<T("enc", li + 1), cur>>, <<T("pool", li + 1), T("enc", li + 1)>>}
    /\ encoder_outputs' = Append(encoder_outputs, T("enc", li + 1))
    /\ cur' = T("pool", li + 1)
    /\ li' = li + 1
    /\ UNCHANGED <<levels, lambda_rec, spc, outputs_val, reverse_val, jCls, jClsParam,
                   jEnc, g_cls, g_rev, g_dec, grad_outputs, enc_grad, cls_grad>>
    /\ UNCHANGED netVars

\* UNetEncoder.forward after the loop: center_conv, then ReverseLayerF.apply
EncoderCenter ==
    /\ spc = "encoder"
    /\ li = levels
    /\ graph' = graph \cup {<<T("center", 0), cur>>, <<T("rev", 0), T("center", 0)>>}
    /\ cur' = T("center", 0)
    /\ \E v \in Vals :
         /\ outputs_val' = v
         /\ reverse_val' = ReverseLayerF_forward(v)
    /\ spc' = "classifier"
    /\ UNCHANGED <<levels, lambda_rec, li, encoder_outputs, jCls, jClsParam,
                   jEnc, g_cls, g_rev, g_dec, grad_outputs, enc_grad, cls_grad>>
    /\ UNCHANGED netVars

\* UNetAE.forward: domain = self.domain_classifier(reverse_outputs)
DomainClassifier ==
    /\ spc = "classifier"
    /\ graph' = graph \cup {<<T("dom", 0), ClassifierInput>>}
    /\ spc' = "decoder_in"
    /\ UNCHANGED <<levels, lambda_rec, li, cur, encoder_outputs, outputs_val, reverse_val,
                   jCls, jClsParam, jEnc, g_cls, g_rev, g_dec, grad_outputs, enc_grad,
                   cls_grad>>
    /\ UNCHANGED netVars

\* UNetDecoder.forward before the loop: the list is reversed in place
DecoderStart ==
    /\ spc = "decoder_in"
    /\ encoder_outputs' = Reverse(encoder_outputs)
    /\ cur' = DecoderInput
    /\ li' = 0
    /\ spc' = "decoder"
    /\ UNCHANGED <<levels, lambda_rec, graph, outputs_val, reverse_val, jCls, jClsParam,
                   jEnc, g_cls, g_rev, g_dec, grad_outputs, enc_grad, cls_grad>>
    /\ UNCHANGED netVars

\* what upconv{i+1} is called with, by the decoder's skip_connections
UpconvInputs(skip, i) == IF skip THEN {encoder_outputs[i + 1], cur} ELSE {cur}

\* UNetDecoder.forward, one turn of the loop: upconv, convblock
DecoderLevel ==
    /\ spc = "decoder"
    /\ li < levels
    /\ graph' = graph
                  \cup {<<T("up", li + 1), u>> : u \in UpconvInputs(UNetAE_skip_connections, li)}
                  \cup {<<T("dec", li + 1), T("up", li + 1)>>}
    /\ cur' = T("dec", li + 1)
    /\ li' = li + 1
    /\ UNCHANGED <<levels, lambda_rec, spc, encoder_outputs, outputs_val, reverse_val, jCls,
                   jClsParam, jEnc, g_cls, g_rev, g_dec, grad_outputs, enc_grad, cls_grad>>
    /\ UNCHANGED netVars

\* UNetDecoder.forward after the loop: the output layer
DecoderOutput ==
    /\ spc = "decoder"
    /\ li = levels
    /\ graph' = graph \cup {<<T("out", 0), cur>>}
    /\ cur' = T("out", 0)
    /\ spc' = "loss"
    /\ UNCHANGED <<levels, lambda_rec, li, encoder_outputs, outputs_val, reverse_val, jCls,
                   jClsParam, jEnc, g_cls, g_rev, g_dec, grad_outputs, enc_grad, cls_grad>>
    /\ UNCHANGED netVars

\* loss = loss_rec + lambda_rec*loss_dom; loss.backward(), the classifier:
\* loss_dom enters the loss with weight lambda_rec
BackwardClassifier ==
    /\ spc = "loss"
    /\ \E j \in Vals, jp \in Vals :
         /\ jCls' = j
         /\ jClsParam' = jp
         /\ g_cls' = lambda_rec * j
         /\ cls_grad' = lambda_rec * jp
    /\ spc' = "bwd_rev"
    /\ UNCHANGED <<levels, lambda_rec, li, cur, encoder_outputs, graph, outputs_val,
                   reverse_val, jEnc, g_rev, g_dec, grad_outputs, enc_grad>>
    /\ UNCHANGED netVars

\* loss.backward(), the reversal layer between the classifier and the encoder
BackwardReverse ==
    /\ spc = "bwd_rev"
    /\ g_rev' = ReverseLayerF_backward(g_cls)
    /\ spc' = "bwd_dec"
    /\ UNCHANGED <<levels, lambda_rec, li, cur, encoder_outputs, graph, outputs_val,
                   reverse_val, jCls, jClsParam, jEnc, g_cls, g_dec, grad_outputs,
                   enc_grad, cls_grad>>
    /\ UNCHANGED netVars

\* loss.backward(), the decoder: loss_rec enters the loss with weight 1
BackwardDecoder ==
    /\ spc = "bwd_dec"
    /\ \E j \in Vals : g_dec' = j
    /\ spc' = "bwd_enc"
    /\ UNCHANGED <<levels, lambda_rec, li, cur, encoder_outputs, graph, outputs_val,
                   reverse_val, jCls, jClsParam, jEnc, g_cls, g_rev, grad_outputs,
                   enc_grad, cls_grad>>
    /\ UNCHANGED netVars

\* loss.backward(), the encoder: the center output was used twice (by the
\* decoder and by the reversal layer) and the two gradients are summed
BackwardEncoder ==
    /\ spc = "bwd_enc"
    /\ grad_outputs' = g_dec + g_rev
    /\ \E j \in Vals :
         /\ jEnc' = j
         /\ enc_grad' = j * (g_dec + g_rev)
    /\ spc' = "done"
    /\ UNCHANGED <<levels, lambda_rec, li, cur, encoder_outputs, graph, outputs_val,
                   reverse_val, jCls, jClsParam, g_cls, g_rev, g_dec, cls_grad>>
    /\ UNCHANGED netVars

NextStep ==
    \/ EncoderLevel
    \/ EncoderCenter
    \/ DomainClassifier
    \/ DecoderStart
    \/ DecoderLevel
    \/ DecoderOutput
    \/ BackwardClassifier
    \/ BackwardReverse
    \/ BackwardDecoder
    \/ BackwardEncoder

\* the driver when only one iteration is followed
IdleNet ==
    /\ log_dir = "runs"
    /\ epochs = 1
    /\ test_freq = 1
    /\ pc = "idle"
    /\ epoch = 0
    /\ writer = "unset"
    /\ scalars = 0
    /\ test_loss = NaN
    /\ test_loss_min = Inf
    /\ best_saved_at = -1
    /\ ckpt_saved_at = -1
    /\ trace = <<>>
    /\ tests = <<>>


vars == <<netVars, stepVars>>

Init == InitNet /\ IdleStep

Next == NextNet

Spec == Init /\ [][Next]_vars

InitIteration == IdleNet /\ InitStep

SpecStep == InitIteration /\ [][NextStep]_vars

\* ---------------------------------------------------- train_net: claims
Finished == pc \in {"done", "error"}

\* the operations of epoch e, in the order they happened
OpsOf(e) == SelectSeq(trace, LAMBDA t : t[1] = e)

IsPrefix(s, t) == Len(s) <= Len(t) /\ SubSeq(t, 1, Len(s)) = s

\* the order of one epoch: train, scheduler step, test (with the best
\* checkpoint written or not) when e % test_freq = 0, checkpoint
ExpectedOps(e, b) ==
    <<  <<e, "train">>, <<e, "sched">>  >>
    \o (IF e % test_freq = 0
          THEN << <<e, "test">> >> \o (IF b THEN << <<e, "best">> >> ELSE <<>>)
          ELSE <<>>)
    \o << <<e, "ckpt">> >>

BestWrittenIn(e) == \E i \in 1..Len(trace) : trace[i] = <<e, "best">>

\* the k-th test loss has been through the best-checkpoint decision
Decided(k) == k < Len(tests) \/ pc # "best"

DecidedTests == {k \in 1..Len(tests) : Decided(k)}

\* position of a loss that is not NaN on the number line, +inf last
Key(l) == IF l.k = "fin" THEN l.v ELSE MaxLoss + 1

SetMin(S) == CHOOSE x \in S : \A y \in S : x <= y

MinKeySoFar ==
    SetMin({MaxLoss + 1} \cup {Key(tests[k].loss) : k \in {j \in DecidedTests : tests[j].loss.k # "nan"}})

\* C4 as stated: test_loss_min is the minimum of all test losses so far
\* (infinity if none), it never increases, and best_checkpoint.pytorch is
\* written in an epoch exactly when the epoch ran test_epoch and its loss is
\* strictly lower than every earlier test loss.
C4_AsStated ==
    /\ IF DecidedTests = {}
         THEN test_loss_min = Inf
         ELSE /\ \E k \in DecidedTests : tests[k].loss = test_loss_min
              /\ \A k \in DecidedTests : LtEq(test_loss_min, tests[k].loss)
    /\ \A e \in 0..MaxEpochs :
         BestWrittenIn(e) <=>
            \E k \in DecidedTests :
                /\ tests[k].e = e
                /\ \A j \in 1..(k - 1) : Lt(tests[k].loss, tests[j].loss)

\* the k-th test loss is below +inf and below every earlier loss that is a number
StrictlyLowest(k) ==
    /\ Lt(tests[k].loss, Inf)
    /\ \A j \in 1..(k - 1) : tests[j].loss.k = "nan" \/ Lt(tests[k].loss, tests[j].loss)

C4_State ==
    /\ test_loss_min.k # "nan"
    /\ Key(test_loss_min) = MinKeySoFar
    /\ \A e \in 0..MaxEpochs :
         BestWrittenIn(e) <=>
            \E k \in DecidedTests : tests[k].e = e /\ StrictlyLowest(k)
    /\ \A k \in DecidedTests :
         (tests[k].e = best_saved_at) => StrictlyLowest(k)
    /\ \A k \in DecidedTests :
         StrictlyLowest(k) => best_saved_at >= tests[k].e

\* C4 (amended): test_loss_min is the minimum of +infinity and the test losses
\* returned so far that are not NaN, it never increases, and
\* best_checkpoint.pytorch is written in an epoch exactly when the epoch ran
\* test_epoch and its loss is strictly lower than +infinity and than every
\* earlier test loss; a loss equal to the current minimum (also +infinity as
\* the first loss) or NaN writes nothing.
C4_TestLossMin ==
    /\ []C4_State
    /\ [][LtEq(test_loss_min', test_loss_min)]_vars

\* a run in which the second loss equals the minimum and is not saved, and
\* the third is lower and is saved
C4_Witness ==
    /\ pc = "done"
    /\ Len(tests) = 3
    /\ tests[1].loss = Fin(1)
    /\ tests[2].loss = Fin(1)
    /\ tests[3].loss = Fin(0)
    /\ BestWrittenIn(0) /\ ~BestWrittenIn(1) /\ BestWrittenIn(2)
    /\ best_saved_at = 2

\* C5 as stated: every epoch e in 0..epochs-1 runs train_epoch, the scheduler
\* step, test_epoch only if e % test_freq = 0 (then the best-checkpoint
\* decision) and one write of checkpoint.pytorch, in this order, and the
\* writer is closed only after the last epoch.
C5_EpochOrder ==
    /\ \A e \in 0..(epochs - 1) :
         \E b \in BOOLEAN :
            IF e < epoch \/ Finished
              THEN OpsOf(e) = ExpectedOps(e, b)
              ELSE IsPrefix(OpsOf(e), ExpectedOps(e, b))
    /\ writer = "closed" => epoch = epochs

\* the same order, for the runs that are given a log directory
OrderWhenLogged ==
    log_dir # "None" => C5_EpochOrder /\ pc # "error"

\* C6 as stated: with log_dir=None no writer is created, nothing is logged
\* and train_net never reaches an error state.
C6_NoLogDir ==
    log_dir = "None" =>
        /\ writer \in {"unset", "None"}
        /\ scalars = 0
        /\ pc # "error"

\* ------------------------------------------- one training iteration: claims
EncoderRan == spc \notin {"idle", "encoder"}

BackwardRan == spc = "done"

\* C1: ReverseLayerF is the identity in the forward pass (reverse_outputs is
\* the center output) and negates the gradient in the backward pass (what is
\* passed back is minus what the classifier passed back, so that a second
\* reversal gives the classifier's gradient again).
C1_ReverseLayer ==
    /\ EncoderRan => reverse_val = outputs_val
    /\ spc \in {"bwd_dec", "bwd_enc", "done"} =>
          /\ g_rev + g_cls = 0
          /\ ReverseLayerF_backward(g_rev) = g_cls

C1_Witness ==
    /\ BackwardRan
    /\ outputs_val = 1
    /\ reverse_val = 1
    /\ g_cls = 2
    /\ g_rev = 0 - 2

\* the tensors a module call was given
InputsOf(t) == {e[2] : e \in {d \in graph : d[1] = t}}

\* t has been computed
Computed(t) == \E e \in graph : e[1] = t

\* the tensors t is computed from, not looking behind the tensors of Stop
RECURSIVE ReadsFrom(_, _)
ReadsFrom(S, Stop) ==
    LET N == S \cup UNION {InputsOf(t) : t \in S \ Stop}
    IN  IF N = S THEN S ELSE ReadsFrom(N, Stop)

EncoderOutputs == {T("enc", k) : k \in 1..levels}

\* the decoder levels that have run
DecoderLevelsRun ==
    IF spc = "decoder" THEN 1..li
    ELSE IF spc \in {"loss", "bwd_rev", "bwd_dec", "bwd_enc", "done"} THEN 1..levels
    ELSE {}

\* C2 as stated: at every decoder level the upsampling block receives the
\* encoder output of the matching level (deepest first) together with the
\* upsampled features, so the reconstruction depends on the per-level encoder
\* outputs and not only on the center output.
C2_SkipConnections ==
    /\ \A i \in DecoderLevelsRun :
         /\ encoder_outputs[i] = T("enc", levels + 1 - i)
         /\ encoder_outputs[i] \in InputsOf(T("up", i))
    /\ Computed(T("out", 0)) =>
         ReadsFrom({T("out", 0)}, {T("center", 0)}) \cap EncoderOutputs # {}

\* the features handed from one decoder level to the next
DecoderPrev(i) == IF i = 1 THEN T("center", 0) ELSE T("dec", i - 1)

\* C2 (amended): UNetAE builds its decoder with skip_connections=False: the
\* encoder outputs are handed to the decoder and reversed (deepest first), but
\* at every decoder level the upsampling block receives the previous features
\* only, and the reconstruction depends on the encoder outputs through the
\* center (latent) output and in no other way.
C2_NoSkipConnections ==
    /\ \A i \in DecoderLevelsRun :
         /\ encoder_outputs[i] = T("enc", levels + 1 - i)
         /\ InputsOf(T("up", i)) = {DecoderPrev(i)}
    /\ spc \in {"loss", "bwd_rev", "bwd_dec", "bwd_enc", "done"} =>
         /\ ReadsFrom({T("out", 0)}, {T("center", 0)}) \cap EncoderOutputs = {}
         /\ EncoderOutputs \subseteq ReadsFrom({T("out", 0)}, {})
         /\ T("center", 0) \in ReadsFrom({T("out", 0)}, {})

C2_Witness ==
    /\ spc = "loss"
    /\ levels = 3
    /\ encoder_outputs = <<T("enc", 3), T("enc", 2), T("enc", 1)>>
    /\ InputsOf(T("up", 2)) = {T("dec", 1)}
    /\ Computed(T("out", 0))

\* C3: the classifier reads the reversed copy of the center output and the
\* decoder the plain one; after loss.backward() the gradient on the encoder is
\* the reconstruction gradient as the decoder passed it back minus the
\* gradient the classifier passed back (the domain-loss gradient times
\* lambda_rec), and the classifier's parameter holds the domain-loss gradient
\* times lambda_rec, not negated.
C3_Adversarial ==
    /\ spc \notin {"idle", "encoder", "classifier"} =>
          InputsOf(T("dom", 0)) = {T("rev", 0)}
    /\ 1 \in DecoderLevelsRun =>
          /\ T("center", 0) \in InputsOf(T("up", 1))
          /\ T("rev", 0) \notin ReadsFrom({cur}, {})
    /\ EncoderRan => InputsOf(T("rev", 0)) = {T("center", 0)}
    /\ BackwardRan =>
          /\ g_cls = lambda_rec * jCls
          /\ grad_outputs = g_dec - g_cls
          /\ enc_grad = jEnc * g_dec - jEnc * (lambda_rec * jCls)
          /\ cls_grad = lambda_rec * jClsParam

C3_Witness ==
    /\ BackwardRan
    /\ lambda_rec = 2
    /\ jCls = 1
    /\ jClsParam = 1
    /\ g_dec = 1
    /\ jEnc = 1
    /\ enc_grad = 0 - 1
    /\ cls_grad = 2

====
